---- MODULE Spec2Model ----
(***************************************************************************)
(* State-machine model of DolphinVisionNode (src/dolphin_vision_node.py):  *)
(* the instance fields, load_model, generate_answer and unload.  One       *)
(* action per collaborator call of the code; the deterministic code        *)
(* between two collaborator calls belongs to the action of the first.      *)
(* A collaborator call either returns or raises; which one is an input.    *)
(***************************************************************************)
EXTENDS Integers, Sequences, FiniteSets, TLC

\* ------------------------------------------------------------------ bounds
\* number of generate_answer invocations made on the one instance
MaxRequests == 2
\* number of unload() invocations made on the one instance
MaxUnloads == 2
\* number of IS_CHANGED invocations the host makes
MaxChanged == 2

\* ------------------------------------------------------- program constants
SentinelId == 0 - 200

NoneRef == 0

LabelBf16 == "bf16 (No Quantization, Highest Quality)"
LabelNf4 == "nf4 (Fastest, Most Efficient, Lowest Quality)"
LabelFp4 == "fp4 (Fast, Very Efficient, Low Quality)"
LabelInt8 == "int8 (Medium Speed, Efficient, Medium Quality)"

\* the four labels INPUT_TYPES offers
RecognizedLabels == {LabelBf16, LabelNf4, LabelFp4, LabelInt8}

\* a label the host never offers, and a label object that cannot be hashed
UnsupportedLabel == "unsupported-label"
UnhashableLabel == "[]"

IsHashable(label) == label # UnhashableLabel

\* a lookup that falls back to the default entry for an unknown label
quantization_map_get_default(label) ==
  CASE label = LabelNf4 -> [method |-> "bitsandbytes", bits |-> 4]
    [] label = LabelFp4 -> [method |-> "bitsandbytes", bits |-> 4]
    [] label = LabelInt8 -> [method |-> "bitsandbytes", bits |-> 8]
    [] OTHER -> [method |-> "bf16", bits |-> 0]

\* quantization_map.get(quantization_type, (None, None))
quantization_map_get(label) ==
  CASE label = LabelBf16 -> [method |-> "bf16", bits |-> 0]
    [] label = LabelNf4 -> [method |-> "bitsandbytes", bits |-> 4]
    [] label = LabelFp4 -> [method |-> "bitsandbytes", bits |-> 4]
    [] label = LabelInt8 -> [method |-> "bitsandbytes", bits |-> 8]
    [] OTHER -> [method |-> "None", bits |-> 0]

\* ---------------------------------------------------------------- messages
\* A Python string is a sequence of parts; an f-string appends str(e).
MsgInvalidQuant == <<"Invalid quantization type.">>
MsgFailedLoad == <<"Failed to load model.">>
MsgNotLoaded == <<"Model not loaded. Please check the node's configuration and ensure the model is loaded successfully.">>
MsgBadImage == <<"Invalid input: 'image' must be a PyTorch tensor.">>
MsgBadPrompt == <<"Invalid input: 'prompt' must be a string.">>
PfxModelError == "Error loading model 'cognitivecomputations/dolphin-vision-7b'. It might not exist or there was an OSError: "
PfxTokenizerError == "Error loading tokenizer: "
PfxLoadUnexpected == "An unexpected error occurred while loading the model: "
PfxImageProcessing == "Image processing error: "
PfxImageConversion == "Error converting image tensor to PIL Image: "
PfxProcessImages == "Error processing images with the model: "
PfxGeneration == "Error during model generation: "
PfxUnexpected == "An unexpected error occurred: "
TxtChannels == "Expected image tensor to have 1 or 3 channels, but got "
TxtDimensions == "Expected image tensor to have 3 dimensions (C, H, W), but got "
TxtNoCacheAttr == "'DolphinVisionNode' object has no attribute 'cache'"
TxtIndexError == "tuple index out of range"
TxtListIndexError == "list index out of range"
TxtZeroDim == "iteration over a 0-d tensor"
TxtUnhashable == "unhashable type: 'list'"

\* an exception raised by a collaborator: its class and str(e)
Exc(type) == [type |-> type, text |-> <<"failure in collaborator">>]

\* None, or the one-element tuple load_model returns
RetNone == [none |-> TRUE, msg |-> <<>>]
RetMsg(m) == [none |-> FALSE, msg |-> m]

\* ------------------------------------------------------------------ inputs
Tensor(shape) == [tensor |-> TRUE, shape |-> shape]
NotATensor == [tensor |-> FALSE, shape |-> <<>>]

Images ==
  { NotATensor,
    Tensor(<<1, 64, 64, 3>>),
    Tensor(<<2, 64, 64, 1>>),
    Tensor(<<2, 64, 64, 5>>),
    Tensor(<<64, 64, 5>>),
    Tensor(<<1, 1, 64, 3, 3>>),
    Tensor(<<0, 64, 64, 3>>),
    Tensor(<<>>) }

Str(text) == [str |-> TRUE, text |-> text]
NotAString == [str |-> FALSE, text |-> <<>>]

ImageMarker == "<image>"

Prompts == { NotAString, Str(<<"Describe the image.">>), Str(<<ImageMarker>>) }

Labels == RecognizedLabels \cup {UnsupportedLabel, UnhashableLabel}

Requests == [image : Images, prompt : Prompts, quantization_type : Labels, cache : BOOLEAN]

NoRequest == [image |-> NotATensor, prompt |-> NotAString, quantization_type |-> LabelBf16, cache |-> FALSE]

\* --------------------------------------------------- text, tokens, decoding
SymStart == "<|im_start|>user\n"
SymGen == "<|im_end|>\n<|im_start|>assistant\n"
SymEnd == "<|im_end|>"
SymNewline == "\n"
SymSpace == " "

\* the tokenizer's vocabulary: a token id is an index of Vocab
Vocab == <<SymStart, SymGen, SymEnd, SymNewline, SymSpace, "Describe the image.", "A cat.">>
SpecialTokens == {SymStart, SymGen, SymEnd}
Whitespace == {SymNewline, SymSpace}

TokenId(sym) == CHOOSE i \in 1..Len(Vocab) : Vocab[i] = sym

\* tokenizer.apply_chat_template(messages, tokenize=False, add_generation_prompt=True)
apply_chat_template(content) == <<SymStart>> \o content \o <<SymGen>>

\* str.split(sep): the chunks between the occurrences of sep
RECURSIVE split(_, _)
split(text, sep) ==
  IF \A i \in 1..Len(text) : text[i] # sep
  THEN <<text>>
  ELSE LET k == CHOOSE i \in 1..Len(text) :
                  text[i] = sep /\ \A j \in 1..(i - 1) : text[j] # sep
       IN <<SubSeq(text, 1, k - 1)>> \o split(SubSeq(text, k + 1, Len(text)), sep)

\* tokenizer(chunk).input_ids
tokenizer_input_ids(chunk) == [i \in 1..Len(chunk) |-> TokenId(chunk[i])]

\* tokenizer.decode(ids, skip_special_tokens=True)
RECURSIVE decode(_)
decode(ids) ==
  IF ids = <<>> THEN <<>>
  ELSE IF Vocab[Head(ids)] \in SpecialTokens THEN decode(Tail(ids))
  ELSE <<Vocab[Head(ids)]>> \o decode(Tail(ids))

\* str.strip()
RECURSIVE strip(_)
strip(text) ==
  IF text = <<>> THEN <<>>
  ELSE IF Head(text) \in Whitespace THEN strip(Tail(text))
  ELSE IF text[Len(text)] \in Whitespace THEN strip(SubSeq(text, 1, Len(text) - 1))
  ELSE text

\* the token spans model.generate may append to the input sequence
GenOutputs ==
  { <<>>,
    <<TokenId(SymSpace), TokenId("A cat."), TokenId(SymNewline), TokenId(SymEnd)>> }

\* ------------------------------------------------------------------- state
VARIABLES
  self_model,      \* self.model: NoneRef or the id of a model object
  self_tokenizer,  \* self.tokenizer: NoneRef or the id of a tokenizer object
  self_quantized,  \* self.quantized
  pc,              \* position of the running call; "idle" between calls
  nreq,            \* number of generate_answer calls started so far
  req,             \* arguments of the current / last generate_answer call
  load_ret,        \* what load_model returned in this call
  idx,             \* 1-based index of the next batch element of the loop
  pil_images,      \* indexes of the elements converted so far
  text,            \* rendered chat text
  input_ids,       \* assembled token sequence
  output_ids,      \* model.generate(...)[0]
  outcome,         \* "none", "running", "returned" or "raised"
  result,          \* the string held by the returned tuple
  calls,           \* collaborator calls made by the current / last call
  loaded,          \* ids of the models the providers returned to this instance
  unload_calls,    \* model ids passed to unload_model, in order
  nunload,         \* number of unload() calls started so far
  changed          \* the IS_CHANGED calls made so far: arguments and outcome

vars == <<self_model, self_tokenizer, self_quantized, pc, nreq, req, load_ret,
          idx, pil_images, text, input_ids, output_ids, outcome, result, calls,
          loaded, unload_calls, nunload, changed>>

fields == <<self_model, self_tokenizer, self_quantized>>
locals == <<idx, pil_images, text, input_ids, output_ids>>

LoadPending == [none |-> FALSE, msg |-> <<"<load_model running>">>]

\* a collaborator call: what was called, on what, and how it ended
Call(op, arg) == [op |-> op, arg |-> arg, res |-> "ok"]
CallNone(op, arg) == [op |-> op, arg |-> arg, res |-> "none"]
CallRaise(op, arg) == [op |-> op, arg |-> arg, res |-> "raise"]

\* __init__
Init ==
  /\ self_model = NoneRef
  /\ self_tokenizer = NoneRef
  /\ self_quantized = FALSE
  /\ pc = "idle"
  /\ nreq = 0
  /\ req = NoRequest
  /\ load_ret = LoadPending
  /\ idx = 0
  /\ pil_images = <<>>
  /\ text = <<>>
  /\ input_ids = <<>>
  /\ output_ids = <<>>
  /\ outcome = "none"
  /\ result = <<>>
  /\ calls = <<>>
  /\ loaded = {}
  /\ unload_calls = <<>>
  /\ nunload = 0
  /\ changed = <<>>

\* ------------------------------------------------- how a call step can end
Returned(msg) == [raised |-> FALSE, msg |-> msg]
Raised(e) == [raised |-> TRUE, msg |-> e.text]

\* a step of generate_answer either goes on at pc or ends the call with h
Goto(p) == [pc |-> p, h |-> Returned(<<>>)]
Done(h) == [pc |-> "idle", h |-> h]

Continue(st) ==
  /\ pc' = st.pc
  /\ outcome' = IF st.pc # "idle" THEN "running"
                ELSE IF st.h.raised THEN "raised" ELSE "returned"
  /\ result' = st.h.msg

\* ------------------------------------------------------ exception handlers
\* load_model, "except Exception as e" of the outer try
load_except_outer(e) == RetMsg(<<PfxLoadUnexpected>> \o e.text)

\* load_model, handlers around AutoModelForCausalLM.from_pretrained
load_except_model(e) ==
  IF e.type \in {"PreTrainedModelNotFoundError", "OSError"}
  THEN RetMsg(<<PfxModelError>> \o e.text)
  ELSE load_except_outer(e)

\* load_model, handler around AutoTokenizer.from_pretrained
load_except_tokenizer(e) == RetMsg(<<PfxTokenizerError>> \o e.text)

\* the outer handler re-raising instead of returning a message
except_outer_reraise(e) == Raised(e)

\* generate_answer, "except Exception as e" of the outer try
except_outer(e) == Returned(<<PfxUnexpected>> \o e.text)

\* generate_answer, handlers of the per-element try
except_element(e) ==
  IF e.type = "ValueError"
  THEN Returned(<<PfxImageProcessing>> \o e.text)
  ELSE Returned(<<PfxImageConversion>> \o e.text)

except_process_images(e) == Returned(<<PfxProcessImages>> \o e.text)
except_generate(e) == Returned(<<PfxGeneration>> \o e.text)

\* ---------------------------------------------- generate_answer after load
\* the checks after load_model without the isinstance check of the prompt
check_loaded_noprompt(m, t, ret, r) ==
  IF m = NoneRef \/ t = NoneRef THEN Done(Returned(MsgNotLoaded))
  ELSE IF ~r.image.tensor THEN Done(Returned(MsgBadImage))
  ELSE IF r.image.shape = <<>>
       THEN Done(except_outer([type |-> "TypeError", text |-> <<TxtZeroDim>>]))
  ELSE IF r.image.shape[1] = 0 THEN Goto("chat_template")
  ELSE Goto("convert")

\* the checks between the load_model call and the first loop iteration
check_loaded(m, t, ret, r) ==
  IF m = NoneRef \/ t = NoneRef THEN Done(Returned(MsgNotLoaded))
  ELSE IF ~r.image.tensor THEN Done(Returned(MsgBadImage))
  ELSE IF ~r.prompt.str THEN Done(Returned(MsgBadPrompt))
  ELSE IF r.image.shape = <<>>
       THEN Done(except_outer([type |-> "TypeError", text |-> <<TxtZeroDim>>]))
  ELSE IF r.image.shape[1] = 0 THEN Goto("chat_template")
  ELSE Goto("convert")

\* load_model returns ret with fields m, t; generate_answer goes on
EndLoad(m, t, ret, r) ==
  /\ load_ret' = ret
  /\ Continue(check_loaded(m, t, ret, r))

\* the shape checks reading the channel count from the first axis (C, H, W)
check_element_chw(s) ==
  IF Len(s) < 3
  THEN [ok |-> FALSE, exc |-> [type |-> "IndexError", text |-> <<TxtIndexError>>]]
  ELSE IF s[1] \notin {1, 3}
  THEN [ok |-> FALSE, exc |-> [type |-> "ValueError", text |-> <<TxtChannels, ToString(s[1])>>]]
  ELSE IF Len(s) # 3
  THEN [ok |-> FALSE, exc |-> [type |-> "ValueError", text |-> <<TxtDimensions, ToString(Len(s))>>]]
  ELSE [ok |-> TRUE, exc |-> Exc("None")]

\* the shape checks of one batch element of shape s
check_element(s) ==
  IF Len(s) < 3
  THEN [ok |-> FALSE, exc |-> [type |-> "IndexError", text |-> <<TxtIndexError>>]]
  ELSE IF s[3] \notin {1, 3}
  THEN [ok |-> FALSE, exc |-> [type |-> "ValueError", text |-> <<TxtChannels, ToString(s[3])>>]]
  ELSE IF Len(s) # 3
  THEN [ok |-> FALSE, exc |-> [type |-> "ValueError", text |-> <<TxtDimensions, ToString(Len(s))>>]]
  ELSE [ok |-> TRUE, exc |-> Exc("None")]

\* self.cache read as an attribute that exists and is falsy
self_cache_falsy == [found |-> TRUE, value |-> FALSE]

\* the lookup of self.cache: __init__ sets no such attribute
self_cache == [found |-> FALSE, value |-> FALSE]

\* ------------------------------------------------------------- load_model
\* generate_answer is entered and calls load_model, up to the label lookup
generate_answer_from(requests) ==
  /\ pc = "idle"
  /\ nreq < MaxRequests
  /\ \E r \in requests :
       LET q == quantization_map_get(r.quantization_type) IN
       /\ req' = r
       /\ nreq' = nreq + 1
       /\ calls' = <<>>
       /\ idx' = 1
       /\ pil_images' = <<>>
       /\ text' = <<>>
       /\ input_ids' = <<>>
       /\ output_ids' = <<>>
       /\ UNCHANGED <<fields, loaded, unload_calls, nunload, changed>>
       /\ IF ~IsHashable(r.quantization_type)
          THEN EndLoad(self_model, self_tokenizer,
                       load_except_outer([type |-> "TypeError", text |-> <<TxtUnhashable>>]), r)
          ELSE IF q.method = "bf16"
          THEN load_ret' = LoadPending /\ Continue(Goto("from_pretrained"))
          ELSE IF q.method = "bitsandbytes"
          THEN load_ret' = LoadPending /\ Continue(Goto("quantize_model"))
          ELSE EndLoad(self_model, self_tokenizer, RetMsg(MsgInvalidQuant), r)

Call_generate_answer == generate_answer_from(Requests)

\* load_model going on to the tokenizer without looking at the model reference
AfterModel_unchecked(m) ==
  load_ret' = LoadPending /\ Continue(Goto("tokenizer"))

\* after the model assignment: the None check, then on to the tokenizer
AfterModel(m) ==
  IF m = NoneRef
  THEN EndLoad(m, self_tokenizer, RetMsg(MsgFailedLoad), req)
  ELSE load_ret' = LoadPending /\ Continue(Goto("tokenizer"))

\* self.model = AutoModelForCausalLM.from_pretrained(...)
Model_from_pretrained ==
  /\ pc = "from_pretrained"
  /\ UNCHANGED <<self_tokenizer, nreq, req, locals, unload_calls, nunload, changed>>
  /\ \/ /\ calls' = Append(calls, Call("from_pretrained", 0))
        /\ self_model' = nreq
        /\ self_quantized' = FALSE
        /\ loaded' = loaded \cup {nreq}
        /\ AfterModel(nreq)
     \/ /\ calls' = Append(calls, CallNone("from_pretrained", 0))
        /\ self_model' = NoneRef
        /\ self_quantized' = FALSE
        /\ UNCHANGED loaded
        /\ AfterModel(NoneRef)
     \/ /\ calls' = Append(calls, CallRaise("from_pretrained", 0))
        /\ \E ty \in {"PreTrainedModelNotFoundError", "OSError", "RuntimeError"} :
             EndLoad(self_model, self_tokenizer, load_except_model(Exc(ty)), req)
        /\ UNCHANGED <<self_model, self_quantized, loaded>>

\* what the quantize_model call made for a label asks of the backend, next
\* to the model name, the device and the cache flag of the request
quantize_model_args(label) ==
  [quantization_method |-> "bitsandbytes", bits |-> quantization_map_get(label).bits]

\* self.model = quantize_model(..., cache=cache, bits=bits)
Model_quantize_model ==
  /\ pc = "quantize_model"
  /\ UNCHANGED <<self_tokenizer, nreq, req, locals, unload_calls, nunload, changed>>
  /\ LET bits == quantize_model_args(req.quantization_type).bits IN
     \/ /\ calls' = Append(calls, Call("quantize_model", bits))
        /\ self_model' = nreq
        /\ self_quantized' = TRUE
        /\ loaded' = loaded \cup {nreq}
        /\ AfterModel(nreq)
     \/ /\ calls' = Append(calls, CallNone("quantize_model", bits))
        /\ self_model' = NoneRef
        /\ self_quantized' = TRUE
        /\ UNCHANGED loaded
        /\ AfterModel(NoneRef)
     \/ /\ calls' = Append(calls, CallRaise("quantize_model", bits))
        /\ EndLoad(self_model, self_tokenizer, load_except_outer(Exc("RuntimeError")), req)
        /\ UNCHANGED <<self_model, self_quantized, loaded>>

\* self.tokenizer = AutoTokenizer.from_pretrained(...)
Tokenizer_from_pretrained ==
  /\ pc = "tokenizer"
  /\ UNCHANGED <<self_model, self_quantized, nreq, req, locals, loaded, unload_calls, nunload, changed>>
  /\ \/ /\ calls' = Append(calls, Call("tokenizer_from_pretrained", 0))
        /\ self_tokenizer' = nreq
        /\ load_ret' = LoadPending
        /\ Continue(Goto("eval"))
     \/ /\ calls' = Append(calls, CallRaise("tokenizer_from_pretrained", 0))
        /\ UNCHANGED self_tokenizer
        /\ EndLoad(self_model, self_tokenizer, load_except_tokenizer(Exc("OSError")), req)

\* self.model.eval(), then load_model falls off its end
Model_eval ==
  /\ pc = "eval"
  /\ UNCHANGED <<fields, nreq, req, locals, loaded, unload_calls, nunload, changed>>
  /\ \/ /\ calls' = Append(calls, Call("eval", self_model))
        /\ EndLoad(self_model, self_tokenizer, RetNone, req)
     \/ /\ calls' = Append(calls, CallRaise("eval", self_model))
        /\ EndLoad(self_model, self_tokenizer, load_except_outer(Exc("RuntimeError")), req)

\* -------------------------------------------------------- generate_answer
\* one iteration of "for img in image"
Convert_element ==
  /\ pc = "convert"
  /\ UNCHANGED <<fields, nreq, req, load_ret, text, input_ids, output_ids, loaded, unload_calls, nunload, changed>>
  /\ LET chk == check_element(Tail(req.image.shape)) IN
     IF ~chk.ok
     THEN /\ Continue(Done(except_element(chk.exc)))
          /\ UNCHANGED <<calls, idx, pil_images>>
     ELSE \/ /\ calls' = Append(calls, Call("ToPILImage", idx))
             /\ pil_images' = Append(pil_images, idx)
             /\ idx' = idx + 1
             /\ Continue(Goto(IF idx = req.image.shape[1] THEN "chat_template" ELSE "convert"))
          \/ /\ calls' = Append(calls, CallRaise("ToPILImage", idx))
             /\ \E ty \in {"ValueError", "TypeError"} : Continue(Done(except_element(Exc(ty))))
             /\ UNCHANGED <<idx, pil_images>>

\* text = self.tokenizer.apply_chat_template(messages, ...)
Chat_template ==
  /\ pc = "chat_template"
  /\ UNCHANGED <<fields, nreq, req, load_ret, idx, pil_images, input_ids, output_ids, loaded, unload_calls, nunload, changed>>
  /\ \/ /\ calls' = Append(calls, Call("apply_chat_template", self_tokenizer))
        /\ text' = apply_chat_template(<<ImageMarker, SymNewline>> \o req.prompt.text)
        /\ Continue(Goto("tokenize"))
     \/ /\ calls' = Append(calls, CallRaise("apply_chat_template", self_tokenizer))
        /\ UNCHANGED text
        /\ Continue(Done(except_outer(Exc("RuntimeError"))))

\* the sentinel put in front of the two chunks instead of between them
assemble_sentinel_first(chunks) ==
  <<SentinelId>> \o tokenizer_input_ids(chunks[1]) \o tokenizer_input_ids(chunks[2])

\* text_chunks[0] + [-200] + text_chunks[1]
assemble(chunks) ==
  tokenizer_input_ids(chunks[1]) \o <<SentinelId>> \o tokenizer_input_ids(chunks[2])

\* text_chunks = [self.tokenizer(chunk).input_ids for chunk in text.split('<image>')]
\* and the assembly of input_ids
Tokenize ==
  /\ pc = "tokenize"
  /\ UNCHANGED <<fields, nreq, req, load_ret, idx, pil_images, text, output_ids, loaded, unload_calls, nunload, changed>>
  /\ LET chunks == split(text, ImageMarker) IN
     \/ /\ calls' = calls \o [i \in 1..Len(chunks) |-> Call("tokenizer", i)]
        /\ IF Len(chunks) < 2
           THEN /\ UNCHANGED input_ids
                /\ Continue(Done(except_outer([type |-> "IndexError", text |-> <<TxtListIndexError>>])))
           ELSE /\ input_ids' = assemble(chunks)
                /\ Continue(Goto("process_images"))
     \/ /\ \E k \in 1..Len(chunks) :
             calls' = calls \o [i \in 1..k |-> IF i < k THEN Call("tokenizer", i) ELSE CallRaise("tokenizer", i)]
        /\ UNCHANGED input_ids
        /\ Continue(Done(except_outer(Exc("RuntimeError"))))

\* self.model.process_images(pil_images, self.model.config).to(dtype=self.model.dtype)
Process_images ==
  /\ pc = "process_images"
  /\ UNCHANGED <<fields, nreq, req, load_ret, locals, loaded, unload_calls, nunload, changed>>
  /\ \/ /\ calls' = Append(calls, Call("process_images", self_model))
        /\ Continue(Goto("to_device"))
     \/ /\ calls' = Append(calls, CallRaise("process_images", self_model))
        /\ Continue(Done(except_process_images(Exc("RuntimeError"))))

\* input_ids.to(self.device); image_tensor.to(self.device)
To_device ==
  /\ pc = "to_device"
  /\ UNCHANGED <<fields, nreq, req, load_ret, locals, loaded, unload_calls, nunload, changed>>
  /\ \/ /\ calls' = Append(calls, Call("to_device", 0))
        /\ Continue(Goto("generate"))
     \/ /\ calls' = Append(calls, CallRaise("to_device", 0))
        /\ Continue(Done(except_outer(Exc("RuntimeError"))))

\* output_ids = self.model.generate(input_ids, images=image_tensor, ...)[0]
Generate ==
  /\ pc = "generate"
  /\ UNCHANGED <<fields, nreq, req, load_ret, idx, pil_images, text, input_ids, loaded, unload_calls, nunload, changed>>
  /\ \/ /\ calls' = Append(calls, Call("generate", self_model))
        /\ \E new \in GenOutputs : output_ids' = input_ids \o new
        /\ Continue(Goto("decode"))
     \/ /\ calls' = Append(calls, CallRaise("generate", self_model))
        /\ UNCHANGED output_ids
        /\ Continue(Done(except_generate(Exc("RuntimeError"))))

\* output_ids[input_ids.shape[1]:]
new_span(out, inp) == SubSeq(out, Len(inp) + 1, Len(out))

\* answer = self.tokenizer.decode(...).strip(); "if not self.cache:" unload; return
Decode ==
  /\ pc = "decode"
  /\ UNCHANGED <<self_model, self_tokenizer, nreq, req, load_ret, locals, loaded, nunload, changed>>
  /\ \/ /\ calls' = Append(calls, CallRaise("decode", self_tokenizer))
        /\ Continue(Done(except_outer(Exc("RuntimeError"))))
        /\ UNCHANGED <<self_quantized, unload_calls>>
     \/ LET answer == strip(decode(new_span(output_ids, input_ids))) IN
        IF ~self_cache.found
        THEN /\ calls' = Append(calls, Call("decode", self_tokenizer))
             /\ Continue(Done(except_outer([type |-> "AttributeError", text |-> <<TxtNoCacheAttr>>])))
             /\ UNCHANGED <<self_quantized, unload_calls>>
        ELSE IF self_cache.value
        THEN /\ calls' = Append(calls, Call("decode", self_tokenizer))
             /\ Continue(Done(Returned(answer)))
             /\ UNCHANGED <<self_quantized, unload_calls>>
        ELSE /\ unload_calls' = Append(unload_calls, self_model)
             /\ \/ /\ calls' = calls \o <<Call("decode", self_tokenizer), Call("unload_model", self_model)>>
                   /\ self_quantized' = FALSE
                   /\ Continue(Done(Returned(answer)))
                \/ /\ calls' = calls \o <<Call("decode", self_tokenizer), CallRaise("unload_model", self_model)>>
                   /\ UNCHANGED self_quantized
                   /\ Continue(Done(except_outer(Exc("RuntimeError"))))

\* ----------------------------------------------------------------- unload
\* unload(): "if self.model: unload_model(self.model)"
Unload ==
  /\ pc = "idle"
  /\ nunload < MaxUnloads
  /\ nunload' = nunload + 1
  /\ unload_calls' = IF self_model # NoneRef THEN Append(unload_calls, self_model) ELSE unload_calls
  /\ UNCHANGED <<fields, pc, nreq, req, load_ret, locals, outcome, result, calls, loaded, changed>>

\* ------------------------------------------------------------- IS_CHANGED
\* the width of the modelled hash values
HashMod == 8191

\* an argument of IS_CHANGED: None, a tensor (shape and bytes), a string
AbsentImage == [present |-> FALSE, shape |-> <<>>, data |-> <<>>]
AbsentPrompt == [present |-> FALSE, text |-> <<>>]
FpImage(shape, data) == [present |-> TRUE, shape |-> shape, data |-> data]
FpPrompt(chars) == [present |-> TRUE, text |-> chars]

FpImages ==
  { AbsentImage,
    FpImage(<<1, 2>>, <<7, 9>>),
    FpImage(<<2, 1>>, <<7, 9>>) }

FpPrompts == { AbsentPrompt, FpPrompt(<<97>>) }

\* image.tobytes(): the bytes of the elements, without the shape
tobytes(image) == image.data

\* hash of a bytes or str object
RECURSIVE py_hash_seq(_)
py_hash_seq(xs) ==
  IF xs = <<>> THEN 0
  ELSE (31 * py_hash_seq(SubSeq(xs, 1, Len(xs) - 1)) + xs[Len(xs)] + 1) % HashMod

\* hash((a, b))
py_hash_pair(a, b) == (1009 * py_hash_seq(a) + py_hash_seq(b) + 3) % HashMod

\* IS_CHANGED requiring both arguments to be None before it returns 0
IS_CHANGED_both(image, prompt) ==
  IF ~image.present /\ ~prompt.present THEN 0
  ELSE py_hash_pair(tobytes(image), prompt.text)

\* IS_CHANGED(cls, image, prompt)
IS_CHANGED(image, prompt) ==
  IF ~image.present \/ ~prompt.present THEN 0
  ELSE py_hash_pair(tobytes(image), prompt.text)

\* the host calls IS_CHANGED between two calls of the node
Is_changed ==
  /\ pc = "idle"
  /\ Len(changed) < MaxChanged
  /\ \E image \in FpImages, prompt \in FpPrompts :
       \/ changed' = Append(changed, [image |-> image, prompt |-> prompt, raised |-> FALSE,
                                      value |-> IS_CHANGED(image, prompt)])
       \/ /\ image.present /\ prompt.present
          /\ changed' = Append(changed, [image |-> image, prompt |-> prompt, raised |-> TRUE,
                                         value |-> 0])
  /\ UNCHANGED <<fields, pc, nreq, req, load_ret, locals, outcome, result, calls, loaded, unload_calls, nunload>>

Next ==
  \/ Call_generate_answer
  \/ Model_from_pretrained
  \/ Model_quantize_model
  \/ Tokenizer_from_pretrained
  \/ Model_eval
  \/ Convert_element
  \/ Chat_template
  \/ Tokenize
  \/ Process_images
  \/ To_device
  \/ Generate
  \/ Decode
  \/ Unload

Spec == Init /\ [][Next]_vars

\* requests that end at the type check of the image, after the load
FewRequests ==
  { [image |-> NotATensor, prompt |-> Str(<<"Describe the image.">>),
     quantization_type |-> LabelBf16, cache |-> FALSE],
    [image |-> NotATensor, prompt |-> Str(<<"Describe the image.">>),
     quantization_type |-> LabelNf4, cache |-> TRUE] }

Call_generate_answer_few == generate_answer_from(FewRequests)

\* the node driven by a host that also calls IS_CHANGED; the requests of
\* FewRequests take no step beyond the load
NextChanged ==
  \/ Is_changed
  \/ Call_generate_answer_few
  \/ Model_from_pretrained
  \/ Model_quantize_model
  \/ Tokenizer_from_pretrained
  \/ Model_eval
  \/ Unload

SpecChanged == Init /\ [][NextChanged]_vars

TypeOK ==
  /\ self_model \in 0..MaxRequests
  /\ self_tokenizer \in 0..MaxRequests
  /\ self_quantized \in BOOLEAN
  /\ outcome \in {"none", "running", "returned", "raised"}
  /\ nreq \in 0..MaxRequests

\* ============================================================== properties
\* generate_answer has ended (the state between two calls)
Ended == pc = "idle" /\ nreq > 0

\* some call of the current request to op, with the given result
Called(op) == \E i \in 1..Len(calls) : calls[i].op = op
CalledOk(op) == \E i \in 1..Len(calls) : calls[i].op = op /\ calls[i].res = "ok"
NoFailure == \A i \in 1..Len(calls) : calls[i].res = "ok"

LoadReturned == nreq > 0 /\ load_ret # LoadPending
LoadFailed == LoadReturned /\ load_ret # RetNone
LoadSucceeded == LoadReturned /\ load_ret = RetNone

Range(f) == {f[i] : i \in 1..Len(f)}

\* a non-empty tensor batch of 3-dimensional elements with 1 or 3 channels
ValidBatch(image) ==
  /\ image.tensor
  /\ Len(image.shape) = 4
  /\ image.shape[1] > 0
  /\ image.shape[4] \in {1, 3}

\* a tensor batch with at least one element, of 3 dimensions and a channel
\* count other than 1 or 3
BadChannelBatch(image) ==
  /\ image.tensor
  /\ Len(image.shape) = 4
  /\ image.shape[1] > 0
  /\ image.shape[4] \notin {1, 3}

\* C1: every generate_answer call ends by returning a one-element tuple that
\* holds a string; no exception leaves generate_answer, whatever the request,
\* whatever collaborators fail, on a fresh instance or after earlier calls.
C1_NoExceptionEscapes ==
  /\ outcome # "raised"
  /\ Ended => outcome = "returned" /\ result \in Seq(STRING)
  /\ pc # "idle" => outcome = "running"

\* C1 witness: a second call in which the device transfer raised; the outer
\* handler turned the exception into a returned message
C1_Witness ==
  /\ Ended /\ nreq = 2 /\ outcome = "returned"
  /\ Len(calls) > 0 /\ calls[Len(calls)] = CallRaise("to_device", 0)
  /\ result = <<PfxUnexpected>> \o Exc("RuntimeError").text

\* C2: when every collaborator succeeds for a valid request (valid tensor
\* batch, string prompt, recognized label), generate_answer returns the
\* decoded, whitespace-trimmed text of the newly generated span.
C2_ReturnsDecodedAnswer ==
  ( /\ Ended /\ NoFailure
    /\ ValidBatch(req.image) /\ req.prompt.str
    /\ req.quantization_type \in RecognizedLabels )
  => /\ CalledOk("decode")
     /\ result = strip(decode(new_span(output_ids, input_ids)))

\* C3: with cache=false a request that reaches decoding unloads the loaded
\* model after decoding and before returning, returns with the quantized flag
\* false, and leaves no model reference on the instance between calls.
C3_UnloadAfterDecode ==
  (Ended /\ ~req.cache /\ CalledOk("decode"))
  => /\ Len(calls) > 0
     /\ calls[Len(calls)].op = "unload_model"
     /\ ~self_quantized
     /\ self_model = NoneRef

\* C4: with cache=true a request whose load succeeded keeps the model
\* resident: unload_model is not called in the request, and model, tokenizer
\* and quantized flag after the call are the ones that request's load set.
C4_CacheKeepsModel ==
  (Ended /\ req.cache /\ LoadSucceeded)
  => /\ ~Called("unload_model")
     /\ self_model = nreq
     /\ self_tokenizer = nreq
     /\ self_quantized = (quantization_map_get(req.quantization_type).method = "bitsandbytes")

\* C4 witness: a cache=true request that ran through decoding
C4_Witness ==
  /\ Ended /\ req.cache /\ LoadSucceeded
  /\ CalledOk("decode")
  /\ self_quantized

\* C5: with cache=false the model a request loaded has been passed to
\* unload_model when generate_answer returns, also when the request ended in
\* an error after the load.
C5_WeightsDestroyed ==
  (Ended /\ ~req.cache /\ nreq \in loaded) => nreq \in Range(unload_calls)

\* C6: a request whose label is none of the four recognized labels returns
\* "Invalid quantization type.", on a fresh instance or after earlier calls.
C6_InvalidLabelMessage ==
  (Ended /\ req.quantization_type \notin RecognizedLabels /\ IsHashable(req.quantization_type))
  => result = MsgInvalidQuant

\* C7: after a load_model call that failed, the model reference and the
\* tokenizer reference are both absent.
C7_NeverPartiallyLoaded ==
  LoadFailed => self_model = NoneRef /\ self_tokenizer = NoneRef

\* C8: in a request whose load_model call reported a failure, tokenization,
\* process_images and generate are not invoked, and the request returns an
\* error message.
C8_FailedLoadNotReady ==
  LoadFailed
  => /\ ~Called("apply_chat_template") /\ ~Called("tokenizer")
     /\ ~Called("process_images") /\ ~Called("generate")
     /\ Ended => (outcome = "returned" /\ Len(result) > 0)

\* C9: in load_model the full-precision label calls the model provider
\* (method bf16, no bits), the nf4 and fp4 labels call the quantization backend
\* with bits 4, the int8 label with bits 8, each exactly once; any other
\* string loads nothing and load_model returns "Invalid quantization type."
C9_LabelResolution ==
  LoadReturned /\ IsHashable(req.quantization_type)
  => LET first == calls[1]
         loads == {i \in 1..Len(calls) : calls[i].op \in {"from_pretrained", "quantize_model"}}
     IN CASE req.quantization_type = LabelBf16 ->
               loads = {1} /\ first.op = "from_pretrained" /\ first.arg = 0
          [] req.quantization_type \in {LabelNf4, LabelFp4} ->
               loads = {1} /\ first.op = "quantize_model" /\ first.arg = 4
          [] req.quantization_type = LabelInt8 ->
               loads = {1} /\ first.op = "quantize_model" /\ first.arg = 8
          [] OTHER ->
               /\ load_ret = RetMsg(MsgInvalidQuant)
               /\ loads = {} /\ ~Called("tokenizer_from_pretrained")
               /\ nreq \notin loaded
               /\ self_model # nreq /\ self_tokenizer # nreq

\* C9 witness: an unknown label after an earlier successful load: load_model
\* reported the invalid label and loaded nothing
C9_Witness ==
  /\ LoadReturned /\ nreq = 2
  /\ req.quantization_type = UnsupportedLabel
  /\ load_ret = RetMsg(MsgInvalidQuant)
  /\ self_model = 1

BadDimsBatch(image) ==
  /\ image.tensor
  /\ Len(image.shape) >= 1
  /\ image.shape[1] > 0
  /\ Len(image.shape) # 4

\* C11: after a successful load, a batch whose elements do not have exactly 3
\* dimensions (tensor image, string prompt) fails with the image shape error
\* ("Image processing error: Expected image tensor to have ..."), never with
\* the conversion error or another outcome, and no element is converted.
C11_BadDimsShapeError ==
  (Ended /\ LoadSucceeded /\ BadDimsBatch(req.image) /\ req.prompt.str)
  => /\ outcome = "returned"
     /\ Len(result) >= 2
     /\ result[1] = PfxImageProcessing
     /\ result[2] \in {TxtChannels, TxtDimensions}
     /\ pil_images = <<>>

\* no image conversion, prompt encoding or generation in the current request
NoPipelineCalls ==
  /\ pil_images = <<>>
  /\ ~Called("ToPILImage")
  /\ ~Called("apply_chat_template") /\ ~Called("tokenizer")
  /\ ~Called("process_images") /\ ~Called("generate")

\* C12 as stated: a request with a non-string prompt and a tensor image
\* returns "Invalid input: 'prompt' must be a string." whatever the outcome of
\* the model load, and runs no conversion, encoding or generation.
C12_BadPromptAlways ==
  (Ended /\ req.image.tensor /\ ~req.prompt.str)
  => result = MsgBadPrompt /\ NoPipelineCalls

\* C12 amended: such a request returns the prompt error when the instance
\* holds a model and a tokenizer reference after load_model, and the
\* "Model not loaded" message when one of them is absent; in both cases no
\* conversion, encoding or generation runs.
C12_BadPromptOnceLoaded ==
  (Ended /\ req.image.tensor /\ ~req.prompt.str)
  => /\ outcome = "returned"
     /\ result = IF self_model # NoneRef /\ self_tokenizer # NoneRef
                 THEN MsgBadPrompt ELSE MsgNotLoaded
     /\ NoPipelineCalls

\* C12 witness: a quantized load succeeded and the non-string prompt was
\* rejected
C12_Witness ==
  /\ Ended /\ req.image.tensor /\ ~req.prompt.str
  /\ LoadSucceeded /\ self_quantized
  /\ result = MsgBadPrompt

\* C13: unload() is idempotent: with no model loaded it calls no backend
\* primitive and changes no field; on a loaded unit it leaves no model
\* reference behind, so that unload_model is called at most once for any
\* model reference however often unload() is called.
C13_UnloadIdempotent ==
  [][ nunload' # nunload
      => /\ self_model = NoneRef => (unload_calls' = unload_calls /\ UNCHANGED fields)
         /\ self_model' = NoneRef
         /\ \A i \in 1..Len(unload_calls) : unload_calls[i] # self_model ]_vars

\* C14: IS_CHANGED returns 0 whenever the image or the prompt is None; when
\* it returns for a present image and prompt, the value depends on the bytes
\* of the image and the prompt text alone (same bytes and text, same value,
\* whatever the shape and whatever state the instance is in); a call of
\* IS_CHANGED changes no field of the instance.
C14_Fingerprint ==
  /\ [](\A i \in 1..Len(changed) :
          LET c == changed[i] IN
          /\ (~c.image.present \/ ~c.prompt.present) => (~c.raised /\ c.value = 0)
          /\ \A j \in 1..Len(changed) :
               LET d == changed[j] IN
               ( /\ ~c.raised /\ ~d.raised
                 /\ c.image.present /\ d.image.present
                 /\ c.image.data = d.image.data
                 /\ c.prompt = d.prompt )
               => c.value = d.value)
  /\ [][changed' # changed => UNCHANGED <<fields, pc, outcome, result, calls, loaded, unload_calls>>]_vars

\* C14 witness: two calls on images of different shape and equal bytes, made
\* in different states of the instance, returned the same non-zero value, and
\* a call with an absent prompt returned 0 on a loaded instance
C14_Witness ==
  /\ Len(changed) = 2
  /\ ~changed[1].raised /\ ~changed[2].raised
  /\ changed[1].image.present /\ changed[2].image.present
  /\ changed[1].prompt.present /\ changed[2].prompt.present
  /\ changed[1].image.shape # changed[2].image.shape
  /\ changed[1].image.data = changed[2].image.data
  /\ changed[1].prompt = changed[2].prompt
  /\ changed[1].value = changed[2].value /\ changed[1].value # 0
  /\ self_model # NoneRef

\* the position of a collaborator call in the order of the stages
StageRank(op) ==
  CASE op \in {"from_pretrained", "quantize_model"} -> 1
    [] op = "tokenizer_from_pretrained" -> 2
    [] op = "eval" -> 3
    [] op = "ToPILImage" -> 4
    [] op = "apply_chat_template" -> 5
    [] op = "tokenizer" -> 6
    [] op = "process_images" -> 7
    [] op = "to_device" -> 8
    [] op = "generate" -> 9
    [] op = "decode" -> 10
    [] op = "unload_model" -> 11

\* C15: the stages of one invocation run in order (model, tokenizer, eval,
\* conversion of every element, chat template, tokenization, process_images,
\* device transfer, generate, decode, unload), and no stage is invoked once an
\* earlier stage of the invocation has produced an error result.
C15_StagesInOrder ==
  /\ \A i \in 1..Len(calls) : \A j \in i..Len(calls) :
       StageRank(calls[i].op) <= StageRank(calls[j].op)
  /\ \A i \in 1..Len(calls) : calls[i].res # "ok" => i = Len(calls)
  /\ LoadFailed => \A i \in 1..Len(calls) : StageRank(calls[i].op) <= 3

\* the positions of the image marker in the rendered text
MarkerPositions == {i \in 1..Len(text) : text[i] = ImageMarker}

\* C16: when the rendered chat text holds exactly one image marker, the
\* assembled sequence is the ids of the prefix, then -200, then the ids of
\* the suffix, each chunk tokenized by itself: -200 occurs exactly once, at
\* the (0-based) index equal to the number of prefix tokens.
C16_SentinelSplice ==
  (input_ids # <<>> /\ Cardinality(MarkerPositions) = 1)
  => LET k == CHOOSE i \in MarkerPositions : TRUE
         prefix == tokenizer_input_ids(SubSeq(text, 1, k - 1))
         suffix == tokenizer_input_ids(SubSeq(text, k + 1, Len(text)))
         at == {i \in 1..Len(input_ids) : input_ids[i] = SentinelId}
     IN /\ Len(input_ids) = Len(prefix) + 1 + Len(suffix)
        /\ at = {Len(prefix) + 1}
        /\ SubSeq(input_ids, 1, Len(prefix)) = prefix
        /\ SubSeq(input_ids, Len(prefix) + 2, Len(input_ids)) = suffix

\* C16 witness: the prompt "Describe the image." was encoded; prefix and
\* suffix are both non-empty
C16_Witness ==
  /\ pc = "process_images"
  /\ Cardinality(MarkerPositions) = 1
  /\ req.prompt = Str(<<"Describe the image.">>)
  /\ Len(input_ids) = 5 /\ input_ids[2] = SentinelId

\* the other 4-bit label
OtherFourBit(label) == IF label = LabelNf4 THEN LabelFp4 ELSE LabelNf4

\* C17: a load under the nf4 label and a load under the fp4 label resolve to
\* different (method, bits) results and ask different things of the
\* quantization backend: whenever a request with one of the two labels has
\* called quantize_model, the same request under the other label would have
\* resolved differently and issued a different backend request.
C17_FourBitLabelsDiffer ==
  (nreq > 0 /\ req.quantization_type \in {LabelNf4, LabelFp4} /\ Called("quantize_model"))
  => LET mine == req.quantization_type
         other == OtherFourBit(req.quantization_type)
     IN /\ quantization_map_get(mine) # quantization_map_get(other)
        /\ quantize_model_args(mine) # quantize_model_args(other)

\* the request ended on a failure of op, the last call of the request
FailedAt(op) ==
  /\ Ended /\ LoadSucceeded
  /\ Len(calls) > 0
  /\ calls[Len(calls)].op = op /\ calls[Len(calls)].res = "raise"

\* C18: after a successful load, conversion and encoding, a failure of
\* process_images, of the device transfer or of model.generate is returned
\* as the image-processing stage error or the generation stage error, never
\* as the catch-all unexpected error; decode is not invoked after it, and
\* generate is not invoked after a failure of the two earlier stages.
C18_StageErrorsDistinct ==
  \A op \in {"process_images", "to_device", "generate"} :
    FailedAt(op)
    => /\ outcome = "returned"
       /\ result # <<>>
       /\ result[1] \in {PfxProcessImages, PfxGeneration}
       /\ result[1] # PfxUnexpected
       /\ ~Called("decode")
       /\ op # "generate" => ~Called("generate")

\* C19: load_model returns None only when that call left the unit fully
\* loaded (model reference present, tokenizer loaded in the call, model set
\* to evaluation mode in the call); and when from_pretrained or
\* quantize_model yields None without raising, load_model returns
\* "Failed to load model." and loads no tokenizer.
C19_SuccessMeansLoaded ==
  /\ LoadSucceeded
     => /\ self_model # NoneRef /\ self_model = nreq
        /\ self_tokenizer = nreq
        /\ CalledOk("tokenizer_from_pretrained")
        /\ \E i \in 1..Len(calls) :
             /\ calls[i] = Call("eval", nreq)
             /\ \E j \in 1..(i - 1) : calls[j] = Call("tokenizer_from_pretrained", 0)
  /\ (\E i \in 1..Len(calls) : calls[i].res = "none")
     => /\ load_ret = RetMsg(MsgFailedLoad)
        /\ ~Called("tokenizer_from_pretrained")
        /\ ~Called("eval")

\* C19 witness: the quantization backend gave back None for a 4-bit label
\* and the load ended with "Failed to load model."
C19_Witness ==
  /\ Ended
  /\ calls = <<CallNone("quantize_model", 4)>>
  /\ load_ret = RetMsg(MsgFailedLoad)
  /\ self_model = NoneRef

\* C20: no use after release: process_images and model.generate are never
\* invoked on a model reference that was already passed to unload_model.
C20_NoUseAfterRelease ==
  [][ (Len(calls') = Len(calls) + 1
       /\ calls'[Len(calls')].op \in {"process_images", "generate"})
      => \A i \in 1..Len(unload_calls) : unload_calls[i] # calls'[Len(calls')].arg ]_vars

====
